---- MODULE Spec2Model ----
(***************************************************************************)
(* A model of User/pini/pepy/bmpimageplugin.py: the BMP reader             *)
(* (BmpImageFile._open, DibImageFile._open, BmpImageFile._bitmap) and the  *)
(* BMP writer (_save).                                                     *)
(*                                                                         *)
(* Streams are byte sequences.  Python integers are unbounded, and the     *)
(* reader multiplies two unsigned 32-bit header fields, so every number    *)
(* taken from a 32-bit header field is kept as its little-endian base-256  *)
(* digit sequence without trailing zero digits (a "Big"); the arithmetic   *)
(* on them is exact.  16-bit fields and the writer's numbers are Int.      *)
(***************************************************************************)
EXTENDS Integers, Sequences, FiniteSets, TLC

VARIABLES pc, fp, im, out, dec, st

vars == <<pc, fp, im, out, dec, st>>

(* ------------------------------------------------------------------ *)
(* Bounds of the model                                                  *)
(* ------------------------------------------------------------------ *)

\* largest width and height of an image handed to _save
MaxImW == 3
MaxImH == 2
\* largest width the stride formulas are compared on
MaxWidth == 40

(* ------------------------------------------------------------------ *)
(* Exact unsigned arithmetic on base-256 digit sequences               *)
(* ------------------------------------------------------------------ *)

Min(a, b) == IF a < b THEN a ELSE b

RECURSIVE Trim(_)
Trim(d) ==
    IF d = <<>> \/ d[Len(d)] # 0 THEN d ELSE Trim(SubSeq(d, 1, Len(d) - 1))

\* digits of sum_i c[i] * 256^(i-1), for a sequence c of naturals
RECURSIVE Carry(_, _, _)
Carry(c, i, carry) ==
    IF i > Len(c)
    THEN IF carry = 0 THEN <<>>
         ELSE <<carry % 256>> \o Carry(c, i, carry \div 256)
    ELSE <<(c[i] + carry) % 256>> \o Carry(c, i + 1, (c[i] + carry) \div 256)

RECURSIVE Big(_)
Big(n) == IF n = 0 THEN <<>> ELSE <<n % 256>> \o Big(n \div 256)

\* the Int a Big stands for (used only where it is known to be small)
RECURSIVE Val(_)
Val(d) == IF d = <<>> THEN 0 ELSE d[1] + 256 * Val(Tail(d))

Digit(d, i) == IF i >= 1 /\ i <= Len(d) THEN d[i] ELSE 0

RECURSIVE Conv(_, _, _, _)
Conv(a, b, k, i) ==
    IF i > Len(a) THEN 0
    ELSE a[i] * Digit(b, k - i + 1) + Conv(a, b, k, i + 1)

BMul(a, b) ==
    IF a = <<>> \/ b = <<>> THEN <<>>
    ELSE Trim(Carry([k \in 1..(Len(a) + Len(b) - 1) |-> Conv(a, b, k, 1)], 1, 0))

BAddInt(a, n) ==
    IF a = <<>> THEN Big(n)
    ELSE Trim(Carry([a EXCEPT ![1] = a[1] + n], 1, 0))

\* a > b
RECURSIVE BGtFrom(_, _, _)
BGtFrom(a, b, i) ==
    IF i = 0 THEN FALSE
    ELSE IF a[i] # b[i] THEN a[i] > b[i]
    ELSE BGtFrom(a, b, i - 1)

BGt(a, b) ==
    IF Len(a) # Len(b) THEN Len(a) > Len(b) ELSE BGtFrom(a, b, Len(a))

\* a - b for a >= b
RECURSIVE BSubFrom(_, _, _, _)
BSubFrom(a, b, i, borrow) ==
    IF i > Len(a) THEN <<>>
    ELSE LET t == a[i] - Digit(b, i) - borrow
         IN  IF t < 0 THEN <<t + 256>> \o BSubFrom(a, b, i + 1, 1)
             ELSE <<t>> \o BSubFrom(a, b, i + 1, 0)

BSub(a, b) == Trim(BSubFrom(a, b, 1, 0))

\* a >> 3
BShr3(a) ==
    Trim([i \in 1..Len(a) |-> (a[i] \div 8) + (Digit(a, i + 1) % 8) * 32])

\* a & ~3
BAndNot3(a) ==
    IF a = <<>> THEN <<>> ELSE Trim([a EXCEPT ![1] = a[1] - (a[1] % 4)])

\* 1 << n
BShl1(n) == [i \in 1..(n \div 8 + 1) |-> IF i = n \div 8 + 1 THEN 2 ^ (n % 8) ELSE 0]

\* floor(a / m) for an Int m, 0 < m < 2^22, by long division from the top digit
RECURSIVE BDivFrom(_, _, _, _)
BDivFrom(a, m, i, rem) ==
    IF i = 0 THEN <<>>
    ELSE LET t == rem * 256 + a[i]
         IN  BDivFrom(a, m, i - 1, t % m) \o <<t \div m>>

BDivInt(a, m) == Trim(BDivFrom(a, m, Len(a), 0))

(* ------------------------------------------------------------------ *)
(* Streams                                                              *)
(* ------------------------------------------------------------------ *)

\* A stream is [bytes, tail, ndata]: explicit leading bytes, then a colour
\* table of tail.count entries of tail.lut bytes each whose contents are
\* given by tail.kind, then ndata bytes of pixel data (written and read by
\* the raw codec, never by this plugin; they read as 0).  ndata is a digit
\* sequence: the pixel data of a large image is longer than 2^31 bytes.

\* entry k (from 0) of a colour table of n entries, as the 4 bytes B, G, R, X
PalEntry(kind, k, n) ==
    LET g == k % 256
    IN  CASE kind = "grey"    -> <<g, g, g, g>>
          [] kind = "greyx"   -> <<g, g, g, 0>>
          [] kind = "bw"      -> IF k = 0 THEN <<0, 0, 0, 0>>
                                 ELSE <<255, 255, 255, 255>>
          [] kind = "greybad" -> IF k = n - 1 THEN <<g, g, (g + 1) % 256, 0>>
                                 ELSE <<g, g, g, 0>>
          [] OTHER            -> <<g, 255 - g, 0, 0>>

NoTail == [kind |-> "grey", lut |-> 4, count |-> 0]

FileLen(f) == BAddInt(f.ndata, Len(f.bytes) + f.tail.lut * f.tail.count)

\* the bytes of the stream from position p on
Left(f, p) == IF BGt(FileLen(f), Big(p)) THEN BSub(FileLen(f), Big(p)) ELSE <<>>

\* min(a, n) for a digit sequence a and an Int n
BMinInt(a, n) == IF BGt(a, Big(n)) THEN n ELSE Val(a)

ByteAt(f, p) ==
    IF p < Len(f.bytes) THEN f.bytes[p + 1]
    ELSE LET q == p - Len(f.bytes)
         IN  IF q < f.tail.lut * f.tail.count
             THEN PalEntry(f.tail.kind, q \div f.tail.lut, f.tail.count)[(q % f.tail.lut) + 1]
             ELSE 0

\* fp.read(n) at position p: up to n bytes, fewer at the end of the stream
Read(f, p, n) ==
    [i \in 1..BMinInt(Left(f, p), n) |-> ByteAt(f, p + i - 1)]

\* ImageFile._safe_read(fp, a - b): nothing for a size <= 0, else what is
\* there of the next a - b bytes
SafeRead(f, p, a, b) ==
    IF ~BGt(a, b) THEN <<>>
    ELSE LET avail == Left(f, p)
             want == BSub(a, b)
         IN  Read(f, p, IF BGt(want, avail) THEN Val(avail) ELSE Val(want))

(* ------------------------------------------------------------------ *)
(* _binary                                                              *)
(* ------------------------------------------------------------------ *)

\* python's c[a:]
From(c, a) == SubSeq(c, a + 1, Len(c))

i8(c) == c
i16(c) == c[1] + 256 * c[2]
i32(c) == Trim(SubSeq(c, 1, 4))
o8(i) == i % 256
o16(i) == <<i % 256, (i \div 256) % 256>>
o32(i) == <<i % 256, (i \div 256) % 256, (i \div 65536) % 256, (i \div 16777216) % 256>>
\* o32 of a long, given as a digit sequence: its four low bytes
o32L(a) == [k \in 1..4 |-> Digit(a, k)]
Rep(b, n) == [k \in 1..n |-> b]

(* ------------------------------------------------------------------ *)
(* Read BMP file                                                        *)
(* ------------------------------------------------------------------ *)

BIT2MODE ==
    [b \in {1, 4, 8, 16, 24, 32} |->
        CASE b = 1  -> <<"P", "P;1">>
          [] b = 4  -> <<"P", "P;4">>
          [] b = 8  -> <<"P", "P">>
          [] b = 16 -> <<"RGB", "BGR;15">>
          [] b = 24 -> <<"RGB", "BGR">>
          [] b = 32 -> <<"RGBA", "BGRA">>]

TwoPow31 == <<0, 0, 0, 128>>
TwoPow32 == <<0, 0, 0, 0, 1>>
TwoPow16 == <<0, 0, 1>>

\* The decoder's attributes and _bitmap's locals.  A value not yet set is
\* "" (mode, rawmode), <<>> (s, size, palette, tile, info, the 32-bit
\* numbers), -1 (bits), 0 (lutsize) or 1 (direction, which the code sets
\* to -1 or 0).  err is "none" or the exception that ended the call; pos is
\* the stream position.
NoDec ==
    [err |-> "none", pos |-> 0, offset |-> <<>>, s |-> <<>>, size |-> <<>>,
     bits |-> -1, compression |-> <<>>, lutsize |-> 0, colors |-> <<>>,
     direction |-> 1, mode |-> "", rawmode |-> "", palette |-> <<>>,
     tile |-> <<>>, info |-> <<>>]

\* math.ceil(x / 39.3701), exactly
Dpi(x) == BDivInt(BAddInt(BMul(x, Big(10000)), 393700), 393701)

\* s = read(4); s = s + ImageFile._safe_read(self.fp, i32(s)-4)
ReadHeader(f, r) ==
    LET s4 == Read(f, r.pos, 4)
    IN  IF Len(s4) < 4
        THEN [r EXCEPT !.err = "struct", !.pos = r.pos + Len(s4), !.s = s4]
        ELSE LET s == s4 \o SafeRead(f, r.pos + 4, i32(s4), Big(4))
             IN  [r EXCEPT !.s = s, !.pos = r.pos + Len(s)]

\* the upside-down test of the INFO header
IsUpsideDown(s) == i8(s[12]) = 255

\* CORE/INFO: the fields of the header, by the number of bytes read
Variant(r) ==
    LET s == r.s
    IN  IF r.err # "none" THEN r
        ELSE IF Len(s) = 12
        THEN [r EXCEPT !.bits = i16(From(s, 10)),
                       !.size = <<Big(i16(From(s, 4))), Big(i16(From(s, 6)))>>,
                       !.compression = <<>>,
                       !.lutsize = 3,
                       !.colors = <<>>,
                       !.direction = -1]
        ELSE IF Len(s) \in {40, 64, 108, 124}
        THEN LET w == i32(From(s, 4))
                 h == i32(From(s, 8))
                 pxperm == <<i32(From(s, 24)), i32(From(s, 28))>>
             IN  [r EXCEPT !.bits = i16(From(s, 14)),
                           !.size = IF IsUpsideDown(s)
                                    THEN <<w, BSub(TwoPow32, h)>>
                                    ELSE <<w, h>>,
                           !.compression = i32(From(s, 16)),
                           !.lutsize = 4,
                           !.colors = i32(From(s, 32)),
                           !.direction = IF IsUpsideDown(s) THEN 0 ELSE -1,
                           !.info = ("dpi" :> <<Dpi(pxperm[1]), Dpi(pxperm[2])>>)]
        ELSE [r EXCEPT !.err = "header_type"]

\* the size test with the limit taken one bit too high
AreaTooBigAt32(size) == BGt(BMul(size[1], size[2]), TwoPow32)

\* (self.size[0]*self.size[1]) > 2**31
AreaTooBig(size) == BGt(BMul(size[1], size[2]), TwoPow31)

SizeCheck(r) ==
    IF r.err # "none" THEN r
    ELSE IF AreaTooBig(r.size) THEN [r EXCEPT !.err = "size"]
    ELSE r

\* if not colors: colors = 1 << bits
DefaultColors(r) ==
    IF r.err # "none" THEN r
    ELSE IF r.colors = <<>> THEN [r EXCEPT !.colors = BShl1(r.bits)]
    ELSE r

\* MODE
Mode(r) ==
    IF r.err # "none" THEN r
    ELSE IF r.bits \in DOMAIN BIT2MODE
    THEN [r EXCEPT !.mode = BIT2MODE[r.bits][1], !.rawmode = BIT2MODE[r.bits][2]]
    ELSE [r EXCEPT !.err = "depth"]

\* the four masks, at 0x36-14, 0x3a-14, 0x3E-14 and 0x42-14 of the header
Masks(s) == <<i32(From(s, 40)), i32(From(s, 44)), i32(From(s, 48)), i32(From(s, 52))>>

\* the raw mode of a BI_BITFIELDS layout, "" for an unsupported one
BitfieldsRawmode(bits, mask) ==
    IF bits = 32 /\ mask = <<Big(16711680), Big(65280), Big(255), <<0, 0, 0, 255>>>>
    THEN "BGRA"
    ELSE IF bits = 16 /\ mask = <<Big(63488), Big(2016), Big(31)>>
    THEN "BGR;16"
    ELSE IF bits = 16 /\ mask = <<Big(31744), Big(992), Big(31)>>
    THEN "BGR;15"
    ELSE ""

Compression(r) ==
    IF r.err # "none" THEN r
    ELSE IF r.compression = Big(3)
    THEN IF Len(r.s) < 56
         THEN [r EXCEPT !.err = "struct"]
         ELSE LET rawmode == BitfieldsRawmode(r.bits, Masks(r.s))
              IN  IF rawmode = "" THEN [r EXCEPT !.err = "bitfields"]
                  ELSE [r EXCEPT !.rawmode = rawmode]
    ELSE IF r.compression # <<>> THEN [r EXCEPT !.err = "compression"]
    ELSE r

\* the palette size test with >= for >
BadPaletteSizeFrom65536(colors) ==
    BGt(colors, TwoPow16) \/ colors = TwoPow16 \/ colors = <<>>

\* colors > 2**16 or colors <= 0 (colors is unsigned: it is never below 0,
\* and a zero was replaced by 1 << bits)
BadPaletteSize(colors) == BGt(colors, TwoPow16) \/ colors = <<>>

\* the palette loop without the (0, 255) case of two colours
PaletteIndexRangeOnly(colors, i) == i - 1

\* the i-th index (from 1) the palette loop compares with: (0, 255) for two
\* colours, else range(colors)
PaletteIndex(colors, i) == IF colors = Big(2) THEN (IF i = 1 THEN 0 ELSE 255) ELSE i - 1

\* rgb = read(lutsize)[:3] of the i-th turn (from 1) of the loop that starts
\* at position p: every turn reads lutsize bytes, or what is left of them
LutEntry(f, p, lutsize, i) ==
    LET e == Read(f, p + (i - 1) * lutsize, lutsize)
    IN  SubSeq(e, 1, Min(3, Len(e)))

\* greyscale when the loop ends: rgb != o8(i)*3 held in no turn of the
\* loop of colors turns that starts at position p
IsGreyscale(f, p, lutsize, colors) ==
    \A i \in 1..Val(colors) :
        LET g == o8(PaletteIndex(colors, i))
        IN  LutEntry(f, p, lutsize, i) = <<g, g, g>>

\* LUT
Lut(f, r) ==
    IF r.err # "none" \/ r.mode # "P" THEN r
    ELSE IF r.colors # Big(2) /\ BadPaletteSize(r.colors)
    THEN [r EXCEPT !.err = "palette_size"]
    ELSE LET n == Val(r.colors)
             pos == r.pos + BMinInt(Left(f, r.pos), n * r.lutsize)
         IN  IF IsGreyscale(f, r.pos, r.lutsize, r.colors)
             THEN IF r.colors = Big(2)
                  THEN [r EXCEPT !.pos = pos, !.mode = "1", !.rawmode = "1"]
                  ELSE [r EXCEPT !.pos = pos, !.mode = "L", !.rawmode = "L"]
             ELSE [r EXCEPT !.pos = pos, !.mode = "P",
                            !.palette = <<[rawmode |-> "BGR",
                                           data |-> [i \in 1..n |->
                                               LutEntry(f, r.pos, r.lutsize, i)]]>>]

\* the reader's stride rounded to whole bytes only before the mask
ReaderStrideBytesOnly(width, bits) ==
    BAndNot3(BShr3(BAddInt(BMul(width, Big(bits)), 7)))

\* ((self.size[0]*bits+31) >> 3) & (~3)
ReaderStride(width, bits) ==
    BAndNot3(BShr3(BAddInt(BMul(width, Big(bits)), 31)))

\* self.tile and self.info["compression"]
Tile(r) ==
    IF r.err # "none" THEN r
    ELSE LET offset == IF r.offset = <<>> THEN Big(r.pos) ELSE r.offset
         IN  [r EXCEPT !.offset = offset,
                       !.tile = <<[codec |-> "raw",
                                   box |-> <<<<>>, <<>>, r.size[1], r.size[2]>>,
                                   offset |-> offset,
                                   rawmode |-> r.rawmode,
                                   stride |-> ReaderStride(r.size[1], r.bits),
                                   direction |-> r.direction]>>,
                       !.info = r.info @@ ("compression" :> r.compression)]

\* BmpImageFile._bitmap(header, offset) on stream f at position p: the
\* steps in the order of the code, each on the record the one before left
\* (a step after an exception leaves the record as it is)
Bitmap(f, p, header, offset) ==
    LET p0 == IF header # 0 THEN header ELSE p
        off == IF offset = <<>> THEN Big(p0) ELSE offset
        r0 == [NoDec EXCEPT !.pos = p0, !.offset = off]
        r1 == {ReadHeader(f, r0)}
        r2 == {Variant(r) : r \in r1}
        r3 == {SizeCheck(r) : r \in r2}
        r4 == {DefaultColors(r) : r \in r3}
        r5 == {Mode(r) : r \in r4}
        r6 == {Compression(r) : r \in r5}
        r7 == {Lut(f, r) : r \in r6}
        r8 == {Tile(r) : r \in r7}
    IN  CHOOSE r \in r8 : TRUE

\* BmpImageFile._open on a stream at position 0
BmpOpen(f) ==
    LET s == Read(f, 0, 14)
    IN  IF SubSeq(s, 1, Min(2, Len(s))) # <<66, 77>>
        THEN [NoDec EXCEPT !.err = "syntax", !.pos = Len(s)]
        ELSE IF Len(s) < 14
        THEN [NoDec EXCEPT !.err = "struct", !.pos = Len(s)]
        ELSE Bitmap(f, 14, 0, i32(From(s, 10)))

\* DibImageFile._open on a stream at position 0
DibOpen(f) == Bitmap(f, 0, 0, <<>>)

(* ------------------------------------------------------------------ *)
(* Write BMP file                                                       *)
(* ------------------------------------------------------------------ *)

SAVE ==
    [m \in {"1", "L", "P", "RGB", "RGBA"} |->
        CASE m = "1"    -> <<"1", 1, 2>>
          [] m = "L"    -> <<"L", 8, 256>>
          [] m = "P"    -> <<"P", 8, 256>>
          [] m = "RGB"  -> <<"BGR", 24, 0>>
          [] m = "RGBA" -> <<"BGRA", 32, 0>>]

\* ((im.size[0]*bits+7)//8+3) & (~3)
WriterStride(width, bits) ==
    LET x == (width * bits + 7) \div 8 + 3
    IN  x - (x % 4)

\* header = 108 if im.mode == 'RGBA' else 40
WriterHeader(mode) == IF mode = "RGBA" THEN 108 ELSE 40

\* the info header size field: o32(header+16)
WriterHeaderField(header) == o32(header + 16)

\* int(x * 39.3701)
Ppm(x) == (x * 393701) \div 10000

NoStream == [bytes |-> <<>>, tail |-> NoTail, ndata |-> <<>>]

NoOut ==
    [err |-> "none", ret |-> 0, stride |-> -1, header |-> -1, offset |-> -1,
     image |-> <<>>, fileheader |-> <<>>, infoheader |-> <<>>, masks |-> <<>>,
     pad |-> <<>>, tail |-> NoTail, tile |-> <<>>]

\* _save(im, fp, filename, check): the locals it computes and the pieces it
\* writes, in the order it writes them
SaveResult(image, check) ==
    IF image.mode \notin DOMAIN SAVE THEN [NoOut EXCEPT !.err = "mode"]
    ELSE IF check # 0 THEN [NoOut EXCEPT !.ret = check]
    ELSE
    LET rawmode == SAVE[image.mode][1]
        bits == SAVE[image.mode][2]
        colors == SAVE[image.mode][3]
        ppm == <<Ppm(image.dpi[1]), Ppm(image.dpi[2])>>
        stride == WriterStride(image.size[1], bits)
        header == WriterHeader(image.mode)
        offset == 14 + header + colors * 4
        img == BMul(Big(stride), Big(image.size[2]))
    IN  [NoOut EXCEPT
           !.stride = stride, !.header = header, !.offset = offset, !.image = img,
           !.fileheader = <<66, 77>> \o o32L(BAddInt(img, offset + 16)) \o o32(0) \o o32(offset + 16),
           !.infoheader = WriterHeaderField(header) \o o32(image.size[1]) \o o32(image.size[2])
                          \o o16(1) \o o16(bits) \o o32(3) \o o32L(img)
                          \o o32(ppm[1]) \o o32(ppm[2]) \o o32(colors) \o o32(colors),
           !.masks = IF image.mode = "RGBA"
                     THEN <<0, 0, 255, 0>> \o <<0, 255, 0, 0>> \o <<255, 0, 0, 0>>
                          \o <<0, 0, 0, 255>> \o <<66, 71, 82, 115>> \o Rep(o8(0), 36)
                          \o o32(0) \o o32(0) \o o32(0)
                     ELSE <<>>,
           !.pad = Rep(0, 16),
           !.tail = IF image.mode = "1" THEN [kind |-> "bw", lut |-> 4, count |-> 2]
                    ELSE IF image.mode = "L" THEN [kind |-> "grey", lut |-> 4, count |-> 256]
                    ELSE IF image.mode = "P" THEN [kind |-> image.palette, lut |-> 4, count |-> 256]
                    ELSE NoTail,
           !.tile = <<[codec |-> "raw", box |-> <<0, 0, image.size[1], image.size[2]>>,
                       offset |-> 0, rawmode |-> rawmode, stride |-> stride,
                       direction |-> -1]>>]

\* what is in the stream when _save returns
SavedStream(o) ==
    [bytes |-> o.fileheader \o o.infoheader \o o.masks \o o.pad,
     tail |-> o.tail,
     ndata |-> IF o.tile = <<>> THEN <<>> ELSE o.image]

(* ------------------------------------------------------------------ *)
(* The inputs the model draws                                           *)
(* ------------------------------------------------------------------ *)

Pad(b, n) == [i \in 1..n |-> Digit(b, i)]

MaskBytes(kind) ==
    CASE kind = "argb" -> <<0, 0, 255, 0>> \o <<0, 255, 0, 0>> \o <<255, 0, 0, 0>> \o <<0, 0, 0, 255>>
      [] kind = "555"  -> <<0, 124, 0, 0>> \o <<224, 3, 0, 0>> \o <<31, 0, 0, 0>> \o <<0, 0, 0, 0>>
      [] kind = "565"  -> <<0, 248, 0, 0>> \o <<224, 7, 0, 0>> \o <<31, 0, 0, 0>> \o <<0, 0, 0, 0>>
      [] kind = "555a" -> <<0, 124, 0, 0>> \o <<224, 3, 0, 0>> \o <<31, 0, 0, 0>> \o <<0, 128, 0, 0>>
      [] OTHER         -> <<0, 0, 255, 0>> \o <<0, 255, 0, 0>> \o <<255, 0, 0, 0>> \o <<0, 0, 0, 0>>

\* The header bytes of a description d: the OS/2 CORE layout or the INFO
\* layout (with the four masks after it, then zeros), declared to be d.decl
\* bytes long and cut to the d.len bytes the stream holds of it.
HeaderBytes(d) ==
    LET core == Pad(d.decl, 4) \o Pad(d.w, 2) \o Pad(d.h, 2) \o o16(1) \o o16(d.bits)
        info == Pad(d.decl, 4) \o Pad(d.w, 4) \o Pad(d.h, 4) \o o16(1) \o o16(d.bits)
                \o Pad(d.comp, 4) \o o32(0) \o o32(d.ppm) \o o32(d.ppm)
                \o Pad(d.colors, 4) \o Pad(d.colors, 4) \o MaskBytes(d.masks)
        all == IF d.layout = "core" THEN core ELSE info
    IN  [i \in 1..d.len |-> Digit(all, i)]

\* a bare bitmap (DIB) stream
DibStream(d) == [bytes |-> HeaderBytes(d), tail |-> d.tail, ndata |-> <<>>]

\* a BMP file: the 14-byte file header d.head, then the bitmap
BmpStream(d) == [bytes |-> d.head \o HeaderBytes(d), tail |-> d.tail, ndata |-> <<>>]

FileHead(magic, offset) == magic \o o32(0) \o o32(0) \o o32(offset)

D0 ==
    [layout |-> "info", decl |-> Big(40), len |-> 40, w |-> Big(5), h |-> Big(2),
     bits |-> 24, comp |-> <<>>, colors |-> <<>>, masks |-> "argb", ppm |-> 3779,
     tail |-> NoTail, head |-> FileHead(<<66, 77>>, 0)]

\* <<layout, declared size, bytes present>>
HeaderShapes ==
    {<<"core", Big(12), 12>>, <<"info", Big(40), 40>>, <<"info", Big(64), 64>>,
     <<"info", Big(108), 108>>, <<"info", Big(124), 124>>,
     <<"info", Big(56), 56>>, <<"info", Big(41), 40>>, <<"info", Big(1000), 108>>,
     <<"info", <<255, 255, 255, 255>>, 12>>, <<"info", Big(40), 20>>,
     <<"info", Big(3), 40>>, <<"info", Big(0), 4>>, <<"info", Big(40), 2>>}

\* <<width, height>> as the header fields hold them
Geometries ==
    {<<Big(5), Big(2)>>, <<Big(0), Big(0)>>, <<Big(1), Big(1)>>,
     <<Big(65536), Big(65536)>>, <<Big(32768), Big(65536)>>,
     <<Big(32769), Big(65536)>>, <<Big(65535), Big(65535)>>,
     <<Big(1), <<0, 0, 0, 128>>>>, <<Big(2), <<0, 0, 0, 128>>>>,
     <<Big(5), <<254, 255, 255, 255>>>>, <<Big(65536), <<0, 0, 255, 255>>>>,
     <<Big(129), <<0, 0, 0, 255>>>>, <<<<255, 255, 255, 255>>, Big(1)>>}

GeometryInputs ==
    {[D0 EXCEPT !.layout = s[1], !.decl = s[2], !.len = s[3], !.w = g[1], !.h = g[2]] :
        s \in HeaderShapes, g \in Geometries}

DepthInputs ==
    {[D0 EXCEPT !.layout = s[1], !.decl = s[2], !.len = s[3], !.bits = b,
                !.comp = c, !.colors = n,
                !.tail = [kind |-> "other", lut |-> 4, count |-> 2]] :
        s \in {<<"core", Big(12), 12>>, <<"info", Big(40), 40>>, <<"info", Big(64), 64>>},
        b \in {0, 1, 2, 8, 16, 24, 32, 65535},
        c \in {<<>>, Big(1), Big(3), <<0, 0, 0, 128>>},
        n \in {<<>>, Big(2), Big(65537), <<255, 255, 255, 255>>}}

MaskInputs ==
    {[D0 EXCEPT !.decl = Big(n), !.len = n, !.bits = b, !.comp = Big(3), !.masks = m] :
        n \in {40, 64, 108, 124}, b \in {16, 24, 32},
        m \in {"argb", "555", "565", "555a", "rgb0"}}

\* the colour counts of the palette inputs, and the entries a reader of
\* count n at depth b would ask for
PaletteCounts == {0, 1, 2, 16, 256, 257, 65537}
Asked(n, b) == IF n = 0 THEN 2 ^ b ELSE IF n > 65536 THEN 2 ELSE n

PaletteInputs ==
    {[D0 EXCEPT !.layout = s[1], !.decl = s[2], !.len = s[3], !.bits = b,
                !.colors = Big(n),
                !.tail = [kind |-> k, lut |-> s[4], count |-> Asked(n, b) - cut]] :
        s \in {<<"core", Big(12), 12, 3>>, <<"info", Big(40), 40, 4>>},
        b \in {1, 4, 8}, n \in PaletteCounts,
        k \in {"grey", "greyx", "bw", "greybad", "other"}, cut \in {0, 1}}

\* the largest colour table the reader takes
BigPaletteInputs ==
    {[D0 EXCEPT !.bits = 8, !.colors = Big(65536),
                !.tail = [kind |-> "grey", lut |-> 4, count |-> 65536]]}

Inputs ==
    GeometryInputs \cup DepthInputs \cup MaskInputs \cup PaletteInputs
    \cup BigPaletteInputs

\* file headers: another data offset, a wrong magic, a cut header
HeadInputs ==
    {[D0 EXCEPT !.head = hd, !.bits = b,
                !.tail = [kind |-> "other", lut |-> 4, count |-> 256]] :
        hd \in {FileHead(<<66, 77>>, 1078), FileHead(<<66, 65>>, 54), <<66, 77, 0, 0>>, <<>>},
        b \in {8, 24}}

Images ==
    {[mode |-> m, size |-> <<w, h>>, palette |-> k, dpi |-> <<d, d>>] :
        m \in {"1", "L", "P", "RGB", "RGBA", "CMYK"},
        w \in 0..MaxImW, h \in 0..MaxImH, k \in {"greyx", "other"}, d \in {72, 96}}

\* images whose pixel data is about 2^32 bytes long
BigImages ==
    {[mode |-> m, size |-> g, palette |-> "other", dpi |-> <<96, 96>>] :
        m \in {"1", "L", "RGB", "RGBA"},
        g \in {<<32768, 32767>>, <<32768, 32768>>, <<65536, 65536>>}}

(* ------------------------------------------------------------------ *)
(* The state machine                                                    *)
(* ------------------------------------------------------------------ *)

NoImage == [mode |-> "", size |-> <<0, 0>>, palette |-> "", dpi |-> <<0, 0>>, check |-> 0]
NoStride == [width |-> 0, bits |-> 0, writer |-> -1, reader |-> <<>>]

Init ==
    /\ pc = "idle"
    /\ fp = NoStream
    /\ im = NoImage
    /\ out = NoOut
    /\ dec = NoDec
    /\ st = NoStride

\* Image.save: _save(im, fp, filename, check) on an empty stream
Save(image, check) ==
    /\ pc = "idle"
    /\ pc' = "saved"
    /\ im' = [mode |-> image.mode, size |-> image.size, palette |-> image.palette,
              dpi |-> image.dpi, check |-> check]
    /\ out' = SaveResult(image, check)
    /\ fp' = SavedStream(SaveResult(image, check))
    /\ UNCHANGED <<dec, st>>

\* Image.open of the file just written: BmpImageFile._open
Reopen ==
    /\ pc = "saved"
    /\ out.err = "none"
    /\ out.ret = 0
    /\ pc' = "reopened"
    /\ dec' = BmpOpen(fp)
    /\ UNCHANGED <<fp, im, out, st>>

\* Image.open of a BMP file: BmpImageFile._open
OpenFile(d) ==
    /\ pc = "idle"
    /\ pc' = "opened"
    /\ \E f \in {BmpStream(d)} : fp' = f /\ dec' = BmpOpen(f)
    /\ UNCHANGED <<im, out, st>>

\* DibImageFile(buf): DibImageFile._open
OpenDib(d) ==
    /\ pc = "idle"
    /\ pc' = "dib"
    /\ \E f \in {DibStream(d)} : fp' = f /\ dec' = DibOpen(f)
    /\ UNCHANGED <<im, out, st>>

Next ==
    \/ \E image \in Images \cup BigImages, check \in {0, 1} : Save(image, check)
    \/ Reopen
    \/ \E d \in Inputs \cup HeadInputs : OpenFile(d)
    \/ \E d \in Inputs : OpenDib(d)

Spec == Init /\ [][Next]_vars

(* ------------------------------------------------------------------ *)
(* The two stride formulas on their own                                 *)
(* ------------------------------------------------------------------ *)

StrideInit ==
    /\ pc = "stride"
    /\ fp = NoStream
    /\ im = NoImage
    /\ out = NoOut
    /\ dec = NoDec
    /\ st \in {[NoStride EXCEPT !.width = w, !.bits = b] :
                 w \in 0..MaxWidth, b \in DOMAIN BIT2MODE}

\* the writer's and the reader's stride of the same width and depth
Strides ==
    /\ pc = "stride"
    /\ pc' = "strided"
    /\ st' = [st EXCEPT !.writer = WriterStride(st.width, st.bits),
                        !.reader = ReaderStride(Big(st.width), st.bits)]
    /\ UNCHANGED <<fp, im, out, dec>>

StrideNext == Strides

StrideSpec == StrideInit /\ [][StrideNext]_vars

(* ------------------------------------------------------------------ *)
(* What the properties below read                                       *)
(* ------------------------------------------------------------------ *)

Parsed == pc \in {"opened", "dib", "reopened"}

\* where the bitmap header starts in the stream
HdrStart == IF pc = "dib" THEN 0 ELSE 14

\* _bitmap ran and read the four bytes of the size field
SizeFieldRead == Parsed /\ dec.err # "syntax" /\ Len(dec.s) >= 4

\* the headerSize the stream declares
Declared == i32(dec.s)

RecognizedSizes == {Big(12), Big(40), Big(64), Big(108), Big(124)}

\* the header was parsed as the CORE variant, as an INFO variant
CoreVariant == SizeFieldRead /\ Len(dec.s) = 12
InfoVariant == SizeFieldRead /\ Len(dec.s) \in {40, 64, 108, 124}

\* the colour count the INFO header declares (the CORE header has none)
DeclaredColors == IF InfoVariant THEN i32(From(dec.s, 32)) ELSE <<>>

\* the i-th entry (from 0) of the colour table in the stream, as the reader's
\* entry width cuts it, and its first three bytes
FileEntry(i) ==
    LET w == IF Len(dec.s) = 12 THEN 3 ELSE 4
        e == Read(fp, HdrStart + Len(dec.s) + i * w, w)
    IN  SubSeq(e, 1, Min(3, Len(e)))

\* bits per pixel of a raw mode
RawBits(rawmode) ==
    CASE rawmode \in {"1", "P;1"} -> 1
      [] rawmode = "P;4" -> 4
      [] rawmode \in {"P", "L"} -> 8
      [] rawmode \in {"BGR;15", "BGR;16"} -> 16
      [] rawmode = "BGR" -> 24
      [] rawmode = "BGRA" -> 32
      [] OTHER -> 0

(* ------------------------------------------------------------------ *)
(* C1                                                                   *)
(* ------------------------------------------------------------------ *)

\* C1: a file written by _save from an image of mode "1", "L", "P", "RGB" or
\* "RGBA" opens again (_open, _bitmap) with the same mode, width, height and
\* stride, bottom-up, and with the data offset where the writer began the
\* pixel data.  The code does not do this: the reader rejects the header the
\* writer emits for the four modes without alpha.
C1_RoundTrip ==
    (pc = "reopened" /\ im.mode \in DOMAIN SAVE) =>
        /\ dec.err = "none"
        /\ dec.mode = im.mode
        /\ dec.size = <<Big(im.size[1]), Big(im.size[2])>>
        /\ Len(dec.tile) = 1
        /\ dec.tile[1].stride = Big(out.stride)
        /\ dec.tile[1].direction = -1
        /\ dec.tile[1].offset = Big(Len(fp.bytes) + fp.tail.lut * fp.tail.count)

(* ------------------------------------------------------------------ *)
(* C2                                                                   *)
(* ------------------------------------------------------------------ *)

\* C2: every successful parse had a declared headerSize of 12, 40, 64, 108
\* or 124, also on a stream that ends inside the declared header.  The code
\* does not do this: it tests the number of bytes read, not the size field.
C2_HeaderSizeChecked ==
    (Parsed /\ dec.err = "none") => Declared \in RecognizedSizes

(* ------------------------------------------------------------------ *)
(* C3                                                                   *)
(* ------------------------------------------------------------------ *)

\* C3: when the resolved width * height of a header of a recognized variant
\* exceeds 2^31, _bitmap fails before it reads a palette byte and leaves no
\* tile; so every tile covers at most 2^31 pixels.
C3_AreaCap ==
    Parsed =>
        /\ ((CoreVariant \/ InfoVariant)
              /\ BGt(BMul(dec.size[1], dec.size[2]), <<0, 0, 0, 128>>)) =>
                 /\ dec.err = "size"
                 /\ dec.tile = <<>>
                 /\ dec.palette = <<>>
                 /\ dec.pos = HdrStart + Len(dec.s)
        /\ \A i \in 1..Len(dec.tile) :
              ~BGt(BMul(dec.tile[i].box[3], dec.tile[i].box[4]), <<0, 0, 0, 128>>)

\* a 65536 x 65536 INFO header was rejected for its size
C3_Witness ==
    /\ InfoVariant
    /\ dec.size = <<Big(65536), Big(65536)>>
    /\ dec.err = "size"
    /\ dec.tile = <<>>

(* ------------------------------------------------------------------ *)
(* C4                                                                   *)
(* ------------------------------------------------------------------ *)

\* C4: a parse of an INFO header whose height field has the high bit of its
\* top byte (header byte 11) set is top-down, and a parse of a CORE header is
\* bottom-up.  The code does not do the first: it takes the header for
\* top-down only when that byte is 0xff.
C4_TopDown ==
    (Parsed /\ dec.err = "none") =>
        /\ (InfoVariant /\ dec.s[12] >= 128) => dec.tile[1].direction = 0
        /\ CoreVariant => dec.tile[1].direction = -1

(* ------------------------------------------------------------------ *)
(* C5                                                                   *)
(* ------------------------------------------------------------------ *)

\* C5: at 16 bits with BI_BITFIELDS compression, the masks (0x7c00, 0x3e0,
\* 0x1f) give raw mode BGR;15, the masks (0xf800, 0x7e0, 0x1f) give BGR;16,
\* and any other masks fail as an unsupported bitfields layout.  The code
\* does not do this: it compares its four masks with three, so both fail.
C5_Bitfields16 ==
    (InfoVariant /\ Len(dec.s) >= 56 /\ dec.bits = 16 /\ dec.compression = Big(3)
       /\ dec.err # "size") =>
        LET rgb == <<i32(From(dec.s, 40)), i32(From(dec.s, 44)), i32(From(dec.s, 48))>>
        IN  /\ rgb = <<Big(31744), Big(992), Big(31)>> =>
                  (dec.err = "none" /\ dec.tile[1].rawmode = "BGR;15")
            /\ rgb = <<Big(63488), Big(2016), Big(31)>> =>
                  (dec.err = "none" /\ dec.tile[1].rawmode = "BGR;16")
            /\ rgb \notin {<<Big(31744), Big(992), Big(31)>>, <<Big(63488), Big(2016), Big(31)>>} =>
                  dec.err = "bitfields"

(* ------------------------------------------------------------------ *)
(* C6                                                                   *)
(* ------------------------------------------------------------------ *)

\* a successful parse at an indexed bit depth, and its colour count
IndexedParse == Parsed /\ dec.err = "none" /\ dec.bits \in {1, 4, 8}
ColorCount == Val(dec.colors)

\* the stream's table is black then white
IsBlackWhite == FileEntry(0) = <<0, 0, 0>> /\ FileEntry(1) = <<255, 255, 255>>

\* the palette that holds the table's entries in file order
FilePalette ==
    <<[rawmode |-> "BGR", data |-> [i \in 1..ColorCount |-> FileEntry(i - 1)]]>>

\* C6 as claimed: at an indexed bit depth the result is bilevel without a
\* palette for two entries black and white, greyscale without a palette for
\* a count other than 2 whose every entry i is (i, i, i), and else indexed
\* with the entries as its BGR palette.  The code does not do this for a
\* table of more than 256 entries: it compares entry i with i mod 256.
C6_CollapseAsClaimed ==
    IndexedParse =>
        LET bilevel == ColorCount = 2 /\ IsBlackWhite
            grey == ColorCount # 2
                    /\ \A i \in 0..(ColorCount - 1) : i < 256 /\ FileEntry(i) = <<i, i, i>>
        IN  /\ bilevel => (dec.mode = "1" /\ dec.palette = <<>>)
            /\ grey => (dec.mode = "L" /\ dec.palette = <<>>)
            /\ (~bilevel /\ ~grey) => (dec.mode = "P" /\ dec.palette = FilePalette)

\* C6, amended: the same with every entry i equal to (i mod 256) three
\* times for the greyscale case.
C6_Collapse ==
    IndexedParse =>
        LET bilevel == ColorCount = 2 /\ IsBlackWhite
            grey == ColorCount # 2
                    /\ \A i \in 0..(ColorCount - 1) :
                          FileEntry(i) = <<i % 256, i % 256, i % 256>>
        IN  /\ bilevel => (dec.mode = "1" /\ dec.palette = <<>>)
            /\ grey => (dec.mode = "L" /\ dec.palette = <<>>)
            /\ (~bilevel /\ ~grey) => (dec.mode = "P" /\ dec.palette = FilePalette)
            /\ dec.mode \in {"1", "L"} => dec.tile[1].rawmode = dec.mode

\* a ramp of 256 entries was collapsed to greyscale, at 8 bits
C6_Witness ==
    /\ IndexedParse
    /\ dec.bits = 8
    /\ ColorCount = 256
    /\ \A i \in 0..255 : FileEntry(i) = <<i, i, i>>
    /\ dec.mode = "L"
    /\ dec.palette = <<>>

(* ------------------------------------------------------------------ *)
(* C7                                                                   *)
(* ------------------------------------------------------------------ *)

\* C7: the writer's stride and the reader's stride of the same width and
\* bit depth are equal, and are the bytes of a row, ceil(width*bits/8),
\* rounded up to a multiple of 4: 4 for widths 1, 9 and 17 at 1 bit, 16 for
\* width 5 at 24 bits.
C7_Stride ==
    pc = "strided" =>
        LET rowbytes == (st.width * st.bits + 7) \div 8
        IN  /\ st.reader = Big(st.writer)
            /\ st.writer % 4 = 0
            /\ st.writer >= rowbytes
            /\ st.writer < rowbytes + 4
            /\ (st.bits = 1 /\ st.width \in {1, 9, 17}) => st.writer = 4
            /\ (st.bits = 24 /\ st.width = 5) => st.writer = 16

\* both strides of width 17 at 1 bit are 4
C7_Witness ==
    /\ pc = "strided"
    /\ st.width = 17
    /\ st.bits = 1
    /\ st.writer = 4
    /\ st.reader = <<4>>

(* ------------------------------------------------------------------ *)
(* C8                                                                   *)
(* ------------------------------------------------------------------ *)

\* C8: the info header size _save writes is 40 for the modes without alpha
\* and 108 for RGBA, one of the sizes the reader recognizes.  The code does
\* not do this: it writes header+16, 56 and 124.
C8_WriterHeaderSize ==
    (pc \in {"saved", "reopened"} /\ out.err = "none" /\ out.ret = 0) =>
        /\ i32(out.infoheader) = (IF im.mode = "RGBA" THEN Big(108) ELSE Big(40))
        /\ i32(out.infoheader) \in RecognizedSizes

(* ------------------------------------------------------------------ *)
(* C9                                                                   *)
(* ------------------------------------------------------------------ *)

\* 2^b for a bit depth of BIT2MODE
TwoTo(b) == IF b = 32 THEN <<0, 0, 0, 0, 1>> ELSE Big(2 ^ b)

\* C9 as claimed: a declared colour count above 65536 makes the parse of a
\* header of a recognized variant fail, at any bit depth.  The code does
\* not do this: it tests the count only when it reads a palette.
C9_CountCheckedAtAnyDepth ==
    ((CoreVariant \/ InfoVariant) /\ BGt(DeclaredColors, Big(65536))) =>
        dec.err # "none"

\* C9, amended: at an indexed bit depth (1, 4, 8), a header of a recognized
\* variant that passes the size and the compression checks fails as an
\* unsupported palette size exactly when its declared count is above 65536;
\* a declared count of zero is replaced by 2^bits; a successful parse at an
\* indexed depth has a count in (0, 65536]; at the depths 16, 24 and 32
\* no parse fails for its palette size.
C9_CountChecked ==
    ((CoreVariant \/ InfoVariant) /\ dec.bits \in DOMAIN BIT2MODE
       /\ dec.err \in {"none", "palette_size"}) =>
        /\ dec.bits \in {1, 4, 8} =>
              (dec.err = "palette_size" <=> BGt(DeclaredColors, Big(65536)))
        /\ dec.bits \in {16, 24, 32} => dec.err = "none"
        /\ dec.colors = (IF DeclaredColors = <<>> THEN TwoTo(dec.bits) ELSE DeclaredColors)
        /\ (dec.err = "none" /\ dec.bits \in {1, 4, 8}) =>
              (dec.colors # <<>> /\ ~BGt(dec.colors, Big(65536)))

\* a table of exactly 65536 entries was taken, at 8 bits
C9_Witness ==
    /\ InfoVariant
    /\ dec.bits = 8
    /\ DeclaredColors = Big(65536)
    /\ dec.err = "none"
    /\ dec.colors = Big(65536)
    /\ dec.pos = HdrStart + 40 + 4 * 65536

(* ------------------------------------------------------------------ *)
(* C10                                                                  *)
(* ------------------------------------------------------------------ *)

\* C10: the raw mode of every tile packs as many bits per pixel as the bit
\* depth its stride was computed from, also after a greyscale palette is
\* collapsed.  The code does not do this: a collapsed palette gives raw
\* mode "L" or "1" whatever the bit depth.
C10_LayoutConsistent ==
    (Parsed /\ dec.err = "none") =>
        /\ RawBits(dec.tile[1].rawmode) = dec.bits
        /\ dec.tile[1].stride = BAndNot3(BShr3(BAddInt(BMul(dec.size[1], Big(dec.bits)), 31)))

(* ------------------------------------------------------------------ *)
(* C11                                                                  *)
(* ------------------------------------------------------------------ *)

\* _save wrote its headers and palette and handed the image to the codec
Written == pc = "saved" /\ out.err = "none" /\ out.ret = 0

\* the bytes written between the file header and the palette, and all the
\* bytes written before the pixel data (the palette of an indexed image is
\* 256 entries of 4 bytes)
BetweenHeaderAndPalette == Len(out.infoheader) + Len(out.masks) + Len(out.pad)
BeforePixelData ==
    Len(out.fileheader) + BetweenHeaderAndPalette + out.tail.lut * out.tail.count

\* C11: for every mode _save supports and every image size, the data offset
\* in the file header is the number of bytes written before the pixel data,
\* the size field of the info header is the number of bytes written between
\* the file header and the palette, and the file size in the file header is
\* that offset plus stride * height.  The code does not do this for the file
\* size of an image of 2^32 bytes or more: o32 keeps the four low bytes.
C11_OffsetConsistent ==
    Written =>
        /\ i32(From(out.fileheader, 10)) = Big(BeforePixelData)
        /\ i32(out.infoheader) = Big(BetweenHeaderAndPalette)
        /\ i32(From(out.fileheader, 2)) =
               BAddInt(BMul(Big(out.stride), Big(im.size[2])), BeforePixelData)

\* what holds of the file size: it is the offset plus stride * height as
\* long as that sum is below 2^32
FileSizeBelowTwoPow32 ==
    LET size == BAddInt(BMul(Big(out.stride), Big(im.size[2])), BeforePixelData)
    IN  (Written /\ ~BGt(size, <<255, 255, 255, 255>>)) =>
            i32(From(out.fileheader, 2)) = size

====
